---- MODULE Spec2Model ----
(***************************************************************************)
(* Parallel A* maze solver (A_star.cpp).                                   *)
(*                                                                         *)
(* Two layers are modelled.                                                *)
(*  - The batch: main forks an OpenMP team over the loop of numMazes       *)
(*    iterations; every iteration calls solveMaze, which updates the three *)
(*    global counters with plain (unsynchronised) read-modify-writes.      *)
(*    Specification Spec; the search of an iteration is one step there and *)
(*    its result, which depends on the random grid, is drawn from PathLens.*)
(*  - One search in detail: grid generation of solveMaze, aStarSearch step *)
(*    by step (open list, closed flags, allNodes, Node objects on the      *)
(*    heap), reconstructPath and the clean-up.  Specification SearchSpec.  *)
(*                                                                         *)
(* An unsynchronised x++ on a shared int is a data race; it is modelled by *)
(* the outcomes a build produces: a load into a register and a later store *)
(* of register + 1, interleaved freely with the other threads.             *)
(*                                                                         *)
(* The doubles f, g, h are modelled bit for bit (DAdd, SqrtTable): every   *)
(* comparison of the search has the outcome it has in the program; only    *)
(* the order in which the priority queue hands out nodes of equal f is     *)
(* left open.                                                              *)
(***************************************************************************)
EXTENDS Integers, Sequences, FiniteSets, TLC

\* ------------------------------------------------------------------ bounds
\* largest path length a batch task may report (the batch abstracts the grid)
MaxPathLen == 1
\* largest grid of a detailed search: solveMaze(rows, cols) with
\* rows * cols <= MaxCells (the program's sizes are 100 to 1000)
MaxCells == 15

\* -------------------------------------------------------- program constants
numMazes == 3
numThreads == 4

Mazes == 1..numMazes
Threads == 1..numThreads
PathLens == 0..MaxPathLen

VARIABLES
    mainPc,            \* position of main
    teamSize,          \* threads of the parallel region
    schedule,          \* loop schedule of the parallel for
    owner,             \* static schedule: thread an iteration belongs to
    tpc,               \* per thread: position inside the loop body / solveMaze
    iter,              \* per thread: loop index i it is executing (0: none)
    reg,               \* per thread: register of a read-modify-write
    dispatched,        \* per iteration: times handed to a thread
    finished,          \* per iteration: times solveMaze returned
    pathLen,           \* per iteration: pathLen of its solveMaze call
    mazeAttempts, totalPathLength, successfulMazes,   \* the globals
    printed,           \* what main wrote to cout
    \* ---- one solveMaze / aStarSearch call in detail (thread SearchThread)
    caller,            \* who called aStarSearch: "solveMaze", "harness", "none"
    spc,               \* position inside solveMaze / aStarSearch
    rows, cols,        \* dimensions of the grid
    grid,              \* grid[x][y]: 0 free, 1 blocked
    obst,              \* loop counter of the obstacle loop (line 150)
    start, goal,       \* arguments of aStarSearch
    closed,            \* closed[x][y]
    allNodes,          \* allNodes[x][y]: Node* (nullptr is Null)
    nodes,             \* the Node objects allocated with new: nodes[x][y] is
                       \* the sequence of those made for cell (x, y), and
                       \* <<x, y, k>> is the pointer to the k-th of them
    openList,          \* the Node* held by the priority queue
    current,           \* Node* current (Null before the first extraction)
    goalNode,          \* Node* goalNode
    path,              \* the vector aStarSearch returns
    freed              \* freed[x][y][k]: times delete was applied to the Node

batchVars == <<mainPc, teamSize, schedule, owner, tpc, iter, reg, dispatched,
               finished, pathLen, mazeAttempts, totalPathLength,
               successfulMazes, printed>>

searchVarsButPc == <<caller, rows, cols, grid, obst, start, goal, closed,
                     allNodes, nodes, openList, current, goalNode, path,
                     freed>>

searchVars == <<caller, spc, rows, cols, grid, obst, start, goal, closed,
                allNodes, nodes, openList, current, goalNode, path, freed>>

vars == <<batchVars, searchVars>>

NoPrint == [attempts |-> -1, total |-> -1, successes |-> -1]

InitBatch ==
    /\ mainPc = "start"
    /\ teamSize = 0
    /\ schedule = "none"
    /\ owner = [i \in Mazes |-> 0]
    /\ tpc = [t \in Threads |-> "idle"]
    /\ iter = [t \in Threads |-> 0]
    /\ reg = [t \in Threads |-> 0]
    /\ dispatched = [i \in Mazes |-> 0]
    /\ finished = [i \in Mazes |-> 0]
    /\ pathLen = [i \in Mazes |-> 0]
    /\ mazeAttempts = 0
    /\ totalPathLength = 0
    /\ successfulMazes = 0
    /\ printed = NoPrint

\* nullptr
Null == <<>>

\* no detailed search is going on
NoSearch ==
    /\ caller = "none"
    /\ spc = "none"
    /\ rows = 0
    /\ cols = 0
    /\ grid = <<>>
    /\ obst = 0
    /\ start = <<0, 0>>
    /\ goal = <<0, 0>>
    /\ closed = <<>>
    /\ allNodes = <<>>
    /\ nodes = <<>>
    /\ openList = {}
    /\ current = Null
    /\ goalNode = Null
    /\ path = <<>>
    /\ freed = <<>>

Init == InitBatch /\ NoSearch

\* ------------------------------------------------------------------- main
\* #pragma omp parallel for: a team of at most numThreads threads is formed
\* and the iterations are divided among them.  The schedule is the
\* implementation's default: either the iterations are cut into contiguous
\* chunks that go to the threads in thread order when the loop starts
\* (static) or threads take iterations as they become free (dynamic).
Fork ==
    /\ mainPc = "start"
    /\ mainPc' = "parallel"
    /\ \E n \in 1..numThreads :
         /\ teamSize' = n
         /\ \/ /\ schedule' = "static"
               /\ \E o \in [Mazes -> 1..n] :
                    /\ o[1] = 1
                    /\ \A i \in Mazes \ {1} : o[i] - o[i - 1] \in {0, 1}
                    /\ owner' = o
            \/ /\ schedule' = "dynamic"
               /\ owner' = [i \in Mazes |-> 0]
    /\ UNCHANGED <<searchVars, tpc, iter, reg, dispatched, finished, pathLen,
                   mazeAttempts, totalPathLength, successfulMazes, printed>>

\* CanDispatch with an iteration handed out while it has been handed out at
\* most once before (a wrong bookkeeping of the loop's iterations)
CanDispatch_twice(t, i) ==
    /\ t <= teamSize
    /\ tpc[t] = "idle"
    /\ dispatched[i] <= 1
    /\ \A j \in Mazes : (j < i /\ (schedule = "dynamic" \/ owner[j] = t))
                            => dispatched[j] > 0
    /\ schedule = "static" => owner[i] = t
    /\ schedule = "dynamic" => \A u \in 1..(t - 1) : tpc[u] # "idle"

\* the work-sharing rule: iteration i may be handed to thread t.  Iterations
\* are handed out once each and in loop order; under the static schedule to
\* the owner, under the dynamic one to a free thread (the free threads are
\* interchangeable: the one with the lowest number takes it)
CanDispatch(t, i) ==
    /\ t <= teamSize
    /\ tpc[t] = "idle"
    /\ dispatched[i] = 0
    /\ \A j \in Mazes : (j < i /\ (schedule = "dynamic" \/ owner[j] = t))
                            => dispatched[j] > 0
    /\ schedule = "static" => owner[i] = t
    /\ schedule = "dynamic" => \A u \in 1..(t - 1) : tpc[u] # "idle"

\* loop body, line 193-196: thread t starts iteration i and calls solveMaze
Dispatch(t, i) ==
    /\ mainPc = "parallel"
    /\ CanDispatch(t, i)
    /\ tpc' = [tpc EXCEPT ![t] = "search"]
    /\ iter' = [iter EXCEPT ![t] = i]
    /\ dispatched' = [dispatched EXCEPT ![i] = @ + 1]
    /\ UNCHANGED <<searchVars, mainPc, teamSize, schedule, owner, reg,
                   finished, pathLen, mazeAttempts, totalPathLength,
                   successfulMazes, printed>>

\* solveMaze lines 147-162 as one step: the grid is random, so the length of
\* the path aStarSearch returns is an input of the batch
Search(t) ==
    /\ tpc[t] = "search"
    /\ \E len \in PathLens : pathLen' = [pathLen EXCEPT ![iter[t]] = len]
    /\ tpc' = [tpc EXCEPT ![t] = "attempts_rd"]
    /\ UNCHANGED <<searchVars, mainPc, teamSize, schedule, owner, iter, reg,
                   dispatched, finished, mazeAttempts, totalPathLength,
                   successfulMazes, printed>>

\* solveMaze returns: the thread is free for its next iteration
Returned(t) ==
    /\ tpc' = [tpc EXCEPT ![t] = "idle"]
    /\ iter' = [iter EXCEPT ![t] = 0]
    /\ finished' = [finished EXCEPT ![iter[t]] = @ + 1]

\* mazeAttempts++ (line 168), load
AttemptsRead(t) ==
    /\ tpc[t] = "attempts_rd"
    /\ reg' = [reg EXCEPT ![t] = mazeAttempts]
    /\ tpc' = [tpc EXCEPT ![t] = "attempts_wr"]
    /\ UNCHANGED <<searchVars, mainPc, teamSize, schedule, owner, iter,
                   dispatched, finished, pathLen, mazeAttempts,
                   totalPathLength, successfulMazes, printed>>

\* mazeAttempts++ (line 168), store
AttemptsWrite(t) ==
    /\ tpc[t] = "attempts_wr"
    /\ mazeAttempts' = reg[t] + 1
    /\ reg' = [reg EXCEPT ![t] = 0]
    /\ tpc' = [tpc EXCEPT ![t] = "total_rd"]
    /\ UNCHANGED <<searchVars, mainPc, teamSize, schedule, owner, iter,
                   dispatched, finished, pathLen, totalPathLength,
                   successfulMazes, printed>>

\* totalPathLength += pathLen (line 169), load
TotalRead(t) ==
    /\ tpc[t] = "total_rd"
    /\ reg' = [reg EXCEPT ![t] = totalPathLength]
    /\ tpc' = [tpc EXCEPT ![t] = "total_wr"]
    /\ UNCHANGED <<searchVars, mainPc, teamSize, schedule, owner, iter,
                   dispatched, finished, pathLen, mazeAttempts,
                   totalPathLength, successfulMazes, printed>>

\* totalPathLength += pathLen (line 169), store; then the test of line 171
TotalWrite(t) ==
    /\ tpc[t] = "total_wr"
    /\ totalPathLength' = reg[t] + pathLen[iter[t]]
    /\ IF pathLen[iter[t]] > 0
         THEN /\ tpc' = [tpc EXCEPT ![t] = "succ_rd"]
              /\ UNCHANGED <<iter, finished>>
         ELSE Returned(t)
    /\ reg' = [reg EXCEPT ![t] = 0]
    /\ UNCHANGED <<searchVars, mainPc, teamSize, schedule, owner, dispatched,
                   pathLen, mazeAttempts, successfulMazes, printed>>

\* successfulMazes++ (line 172), load
SuccRead(t) ==
    /\ tpc[t] = "succ_rd"
    /\ reg' = [reg EXCEPT ![t] = successfulMazes]
    /\ tpc' = [tpc EXCEPT ![t] = "succ_wr"]
    /\ UNCHANGED <<searchVars, mainPc, teamSize, schedule, owner, iter,
                   dispatched, finished, pathLen, mazeAttempts,
                   totalPathLength, successfulMazes, printed>>

\* successfulMazes++ (line 172), store; solveMaze returns
SuccWrite(t) ==
    /\ tpc[t] = "succ_wr"
    /\ successfulMazes' = reg[t] + 1
    /\ Returned(t)
    /\ reg' = [reg EXCEPT ![t] = 0]
    /\ UNCHANGED <<searchVars, mainPc, teamSize, schedule, owner, dispatched,
                   pathLen, mazeAttempts, totalPathLength, printed>>

\* BarrierOpen of a loop with a nowait clause: main, a member of the team,
\* goes on as soon as it has no iteration of its own left
BarrierOpen_nowait ==
    /\ \A i \in Mazes : dispatched[i] > 0
    /\ tpc[1] = "idle"

\* the implicit barrier at the end of the parallel for: main goes on when no
\* iteration is left and every thread of the team has finished its share
BarrierOpen ==
    /\ \A i \in Mazes : dispatched[i] > 0
    /\ \A t \in Threads : tpc[t] = "idle"

Join ==
    /\ mainPc = "parallel"
    /\ BarrierOpen
    /\ mainPc' = "report_attempts"
    /\ UNCHANGED <<searchVars, teamSize, schedule, owner, tpc, iter, reg,
                   dispatched, finished, pathLen, mazeAttempts,
                   totalPathLength, successfulMazes, printed>>

\* line 205
PrintAttempts ==
    /\ mainPc = "report_attempts"
    /\ printed' = [printed EXCEPT !.attempts = mazeAttempts]
    /\ mainPc' = "report_total"
    /\ UNCHANGED <<searchVars, teamSize, schedule, owner, tpc, iter, reg,
                   dispatched, finished, pathLen, mazeAttempts,
                   totalPathLength, successfulMazes>>

\* line 206
PrintTotal ==
    /\ mainPc = "report_total"
    /\ printed' = [printed EXCEPT !.total = totalPathLength]
    /\ mainPc' = "report_successes"
    /\ UNCHANGED <<searchVars, teamSize, schedule, owner, tpc, iter, reg,
                   dispatched, finished, pathLen, mazeAttempts,
                   totalPathLength, successfulMazes>>

\* line 207-209
PrintSuccesses ==
    /\ mainPc = "report_successes"
    /\ printed' = [printed EXCEPT !.successes = successfulMazes]
    /\ mainPc' = "exit"
    /\ UNCHANGED <<searchVars, teamSize, schedule, owner, tpc, iter, reg,
                   dispatched, finished, pathLen, mazeAttempts,
                   totalPathLength, successfulMazes>>

\* the counter block of solveMaze, lines 168-173
UpdateStep(t) ==
    \/ AttemptsRead(t)
    \/ AttemptsWrite(t)
    \/ TotalRead(t)
    \/ TotalWrite(t)
    \/ SuccRead(t)
    \/ SuccWrite(t)

\* ------------------------------------------------- one search in detail
\* the thread that runs the detailed solveMaze call
SearchThread == 1

\* int dx[8], dy[8] (lines 30-31); the tuples are indexed from 1
dx == <<-1, 1, 0, 0, -1, -1, 1, 1>>
dy == <<0, 0, -1, 1, -1, 1, -1, 1>>

\* A double d with 0 <= d < 64 is the pair <<hi, lo>> of 29-bit limbs with
\* d * 2^52 = hi * 2^29 + lo: every double of that range is such a pair, and
\* the arithmetic below is IEEE-754 binary64 with round-to-nearest-even.
Limb == 536870912

DZero == <<0, 0>>

\* a < b and a > b on doubles
DLess(a, b) == a[1] < b[1] \/ (a[1] = b[1] /\ a[2] < b[2])
DGreater(a, b) == DLess(b, a)

\* the distance between neighbouring doubles at a value with high limb hi,
\* in units of 2^-52: 2^j for a value in [2^j, 2^(j+1))
Ulp(hi) ==
    IF hi < 16777216 THEN 1
    ELSE IF hi < 33554432 THEN 2
    ELSE IF hi < 67108864 THEN 4
    ELSE IF hi < 134217728 THEN 8
    ELSE IF hi < 268435456 THEN 16
    ELSE 32

\* a + b on doubles: the exact sum rounded to the nearest double, ties to
\* the even mantissa
DAdd(a, b) ==
    LET s == a[2] + b[2]
        lo0 == s % Limb
        hi0 == a[1] + b[1] + (s \div Limb)
        u == Ulp(hi0)
        r == lo0 % u
        q == lo0 \div u
        up == 2 * r > u \/ (2 * r = u /\ q % 2 = 1)
        lo1 == IF up THEN lo0 - r + u ELSE lo0 - r
    IN  <<hi0 + (lo1 \div Limb), lo1 % Limb>>

\* sqrt(n), correctly rounded, for the n that occur (sums of two squares)
SqrtTable ==
    0 :> <<0, 0>> @@ 1 :> <<8388608, 0>> @@ 2 :> <<11863283, 109001677>> @@
    4 :> <<16777216, 0>> @@ 5 :> <<18757497, 389015888>> @@
    8 :> <<23726566, 218003354>> @@ 9 :> <<25165824, 0>> @@
    10 :> <<26527107, 364164774>> @@ 13 :> <<30245556, 146977766>> @@
    16 :> <<33554432, 0>> @@ 17 :> <<34587116, 448771100>> @@
    18 :> <<35589849, 327005028>> @@ 20 :> <<37514995, 241160864>> @@
    25 :> <<41943040, 0>> @@ 26 :> <<42773675, 474529752>> @@
    29 :> <<45174036, 312698828>> @@ 36 :> <<50331648, 0>> @@
    37 :> <<51025910, 227504356>> @@ 49 :> <<58720256, 0>> @@
    50 :> <<59316416, 8137472>> @@ 64 :> <<67108864, 0>> @@
    65 :> <<67631119, 453891712>> @@ 81 :> <<75497472, 0>> @@
    100 :> <<83886080, 0>> @@ 121 :> <<92274688, 0>> @@
    144 :> <<100663296, 0>> @@ 169 :> <<109051904, 0>> @@
    196 :> <<117440512, 0>> @@ 225 :> <<125829120, 0>> @@
    256 :> <<134217728, 0>>

\* Heuristic: Euclidean distance (lines 48-50); pow(d, 2) of an integer is
\* exact
heuristic(x1, y1, x2, y2) ==
    SqrtTable[(x1 - x2) * (x1 - x2) + (y1 - y2) * (y1 - y2)]

\* isValid with the column bound off by one
isValid_lastColumn(x, y, rws, cls, g) ==
    x >= 0 /\ x < rws /\ y >= 0 /\ y < cls - 1 /\ g[x][y] = 0

\* lines 53-55
isValid(x, y, rws, cls, g) ==
    x >= 0 /\ x < rws /\ y >= 0 /\ y < cls /\ g[x][y] = 0

\* *p for a Node* p
Deref(mem, p) == mem[p[1]][p[2]][p[3]]

\* Top with the comparator of line 80 reversed (a->f < b->f): the largest f
\* is on top
Top_maxFirst ==
    {n \in openList :
        \A m \in openList : ~DLess(Deref(nodes, n).f, Deref(nodes, m).f)}

\* the Node* the priority queue may hand out as top(): one with the least f
\* (line 80: a->f > b->f puts the smallest f on top; equal f in any order)
Top ==
    {n \in openList :
        \A m \in openList : ~DGreater(Deref(nodes, n).f, Deref(nodes, m).f)}

\* the goal test of line 97 with goal.first compared twice
IsGoal_firstTwice(n) ==
    Deref(nodes, n).x = goal[1] /\ Deref(nodes, n).y = goal[1]

\* current->x == goal.first && current->y == goal.second (line 97)
IsGoal(n) ==
    Deref(nodes, n).x = goal[1] /\ Deref(nodes, n).y = goal[2]

RECURSIVE ParentChain(_, _)
\* the loop of reconstructPath (lines 60-64): goal first
ParentChain(mem, n) ==
    IF n = Null THEN <<>>
    ELSE <<<<Deref(mem, n).x, Deref(mem, n).y>>>>
             \o ParentChain(mem, Deref(mem, n).parent)

\* std::reverse
Reverse(s) == [k \in 1..Len(s) |-> s[Len(s) + 1 - k]]

\* reconstructPath without the reverse of line 65
reconstructPath_noReverse(mem, n) == ParentChain(mem, n)

\* reconstructPath with the goal pushed once more after the reverse
reconstructPath_goalTwice(mem, n) ==
    Reverse(ParentChain(mem, n)) \o <<<<Deref(mem, n).x, Deref(mem, n).y>>>>

\* lines 58-67
reconstructPath(mem, n) == Reverse(ParentChain(mem, n))

\* rows * cols / 5, the number of obstacle draws (line 150)
NumObstacles == (rows * cols) \div 5

EmptyGrid(rws, cls) == [x \in 0..(rws - 1) |-> [y \in 0..(cls - 1) |-> 0]]

\* the dimensions of the grids of the detailed searches
Dims == {d \in (1..MaxCells) \X (1..MaxCells) : d[1] * d[2] <= MaxCells}

\* solveMaze has been called by SearchThread as the only thread of a team
\* (after Fork with a team of one and Dispatch of the first iteration)
InSolveMaze ==
    /\ mainPc = "parallel"
    /\ teamSize = 1
    /\ schedule = "static"
    /\ owner = [i \in Mazes |-> 1]
    /\ tpc = [t \in Threads |-> IF t = SearchThread THEN "search" ELSE "idle"]
    /\ iter = [t \in Threads |-> IF t = SearchThread THEN 1 ELSE 0]
    /\ reg = [t \in Threads |-> 0]
    /\ dispatched = [i \in Mazes |-> IF i = 1 THEN 1 ELSE 0]
    /\ finished = [i \in Mazes |-> 0]
    /\ pathLen = [i \in Mazes |-> 0]
    /\ mazeAttempts = 0
    /\ totalPathLength = 0
    /\ successfulMazes = 0
    /\ printed = NoPrint

\* solveMaze(rows, cols) at line 147: an all-free grid
InitSolveMaze ==
    /\ InSolveMaze
    /\ caller = "solveMaze"
    /\ spc = "gen"
    /\ \E d \in Dims : rows = d[1] /\ cols = d[2]
    /\ grid = EmptyGrid(rows, cols)
    /\ obst = 0
    /\ start = <<0, 0>>
    /\ goal = <<0, 0>>
    /\ closed = <<>>
    /\ allNodes = <<>>
    /\ nodes = <<>>
    /\ openList = {}
    /\ current = Null
    /\ goalNode = Null
    /\ path = <<>>
    /\ freed = <<>>

\* aStarSearch(grid, start, goal) called directly: an obstacle-free grid and
\* any two cells of it
InitHarness ==
    /\ InitBatch
    /\ caller = "harness"
    /\ spc = "call"
    /\ \E d \in Dims : rows = d[1] /\ cols = d[2]
    /\ grid = EmptyGrid(rows, cols)
    /\ obst = 0
    /\ start \in (0..(rows - 1)) \X (0..(cols - 1))
    /\ goal \in (0..(rows - 1)) \X (0..(cols - 1))
    /\ closed = <<>>
    /\ allNodes = <<>>
    /\ nodes = <<>>
    /\ openList = {}
    /\ current = Null
    /\ goalNode = Null
    /\ path = <<>>
    /\ freed = <<>>

SearchInit == InitSolveMaze \/ InitHarness

\* lines 150-154: one random obstacle
GenObstacle ==
    /\ spc = "gen"
    /\ obst < NumObstacles
    /\ \E x \in 0..(rows - 1), y \in 0..(cols - 1) :
         grid' = [grid EXCEPT ![x][y] = 1]
    /\ obst' = obst + 1
    /\ UNCHANGED <<batchVars, caller, spc, rows, cols, start, goal, closed,
                   allNodes, nodes, openList, current, goalNode, path,
                   freed>>

\* lines 156-159: the obstacle loop is over, aStarSearch is called
CallSearch ==
    /\ spc = "gen"
    /\ ~(obst < NumObstacles)
    /\ start' = <<0, 0>>
    /\ goal' = <<rows - 1, cols - 1>>
    /\ spc' = "call"
    /\ UNCHANGED <<batchVars, caller, rows, cols, grid, obst, closed,
                   allNodes, nodes, openList, current, goalNode, path,
                   freed>>

\* new Node{...} (lines 83, 117)
Node(x, y, f, g, h, parent) ==
    [x |-> x, y |-> y, f |-> f, g |-> g, h |-> h, parent |-> parent]

\* the start node of line 83-84: Node{x, y, f, g, h, parent} is initialised
\* in the order of the members, x, y, f, g, h, parent
StartNode ==
    Node(start[1], start[2], DZero, DZero,
         heuristic(start[1], start[2], goal[1], goal[2]), Null)

\* Enter with the start cell marked as visited in the caller's grid
Enter_marksGrid ==
    /\ spc = "call"
    /\ grid' = [grid EXCEPT ![start[1]][start[2]] = 1]
    /\ closed' = [x \in 0..(rows - 1) |-> [y \in 0..(cols - 1) |-> FALSE]]
    /\ nodes' = [[x \in 0..(rows - 1) |-> [y \in 0..(cols - 1) |-> <<>>]]
                    EXCEPT ![start[1]][start[2]] = <<StartNode>>]
    /\ openList' = {<<start[1], start[2], 1>>}
    /\ allNodes' = [[x \in 0..(rows - 1) |-> [y \in 0..(cols - 1) |-> Null]]
                       EXCEPT ![start[1]][start[2]] = <<start[1], start[2], 1>>]
    /\ goalNode' = Null
    /\ spc' = "loop"
    /\ UNCHANGED <<batchVars, caller, rows, cols, obst, start, goal,
                   current, path, freed>>

\* lines 73-88
Enter ==
    /\ spc = "call"
    /\ closed' = [x \in 0..(rows - 1) |-> [y \in 0..(cols - 1) |-> FALSE]]
    /\ nodes' = [[x \in 0..(rows - 1) |-> [y \in 0..(cols - 1) |-> <<>>]]
                    EXCEPT ![start[1]][start[2]] = <<StartNode>>]
    /\ openList' = {<<start[1], start[2], 1>>}
    /\ allNodes' = [[x \in 0..(rows - 1) |-> [y \in 0..(cols - 1) |-> Null]]
                       EXCEPT ![start[1]][start[2]] = <<start[1], start[2], 1>>]
    /\ goalNode' = Null
    /\ spc' = "loop"
    /\ UNCHANGED <<batchVars, caller, rows, cols, grid, obst, start, goal,
                   current, path, freed>>

\* ExploreNeighbour with the comparison of line 116 turned round
\* (fNew > allNodes[newX][newY]->f)
ExploreNeighbour_replaceHigher(st, cur, i) ==
    LET c == Deref(st.nodes, cur)
        newX == c.x + dx[i + 1]
        newY == c.y + dy[i + 1]
    IN  IF ~isValid(newX, newY, rows, cols, grid) \/ closed[newX][newY]
          THEN st
          ELSE LET gNew == DAdd(c.g, heuristic(c.x, c.y, newX, newY))
                   hNew == heuristic(newX, newY, goal[1], goal[2])
                   fNew == DAdd(gNew, hNew)
                   rec == st.allNodes[newX][newY]
                   neighbor == <<newX, newY, Len(st.nodes[newX][newY]) + 1>>
               IN  IF rec = Null \/ DGreater(fNew, Deref(st.nodes, rec).f)
                     THEN [nodes |-> [st.nodes EXCEPT ![newX][newY] =
                                 Append(@, Node(newX, newY, fNew, gNew, hNew,
                                                cur))],
                           openList |-> st.openList \cup {neighbor},
                           allNodes |-> [st.allNodes EXCEPT
                                            ![newX][newY] = neighbor]]
                     ELSE st

\* lines 106-120: the body of the neighbour loop for offset i of the node
\* cur; st holds nodes, openList and allNodes.  closed is read as it was
\* before line 102 closed the cell of cur, which is no neighbour of itself.
ExploreNeighbour(st, cur, i) ==
    LET c == Deref(st.nodes, cur)
        newX == c.x + dx[i + 1]
        newY == c.y + dy[i + 1]
    IN  IF ~isValid(newX, newY, rows, cols, grid) \/ closed[newX][newY]
          THEN st
          ELSE LET gNew == DAdd(c.g, heuristic(c.x, c.y, newX, newY))
                   hNew == heuristic(newX, newY, goal[1], goal[2])
                   fNew == DAdd(gNew, hNew)
                   rec == st.allNodes[newX][newY]
                   neighbor == <<newX, newY, Len(st.nodes[newX][newY]) + 1>>
               IN  IF rec = Null \/ DLess(fNew, Deref(st.nodes, rec).f)
                     THEN [nodes |-> [st.nodes EXCEPT ![newX][newY] =
                                 Append(@, Node(newX, newY, fNew, gNew, hNew,
                                                cur))],
                           openList |-> st.openList \cup {neighbor},
                           allNodes |-> [st.allNodes EXCEPT
                                            ![newX][newY] = neighbor]]
                     ELSE st

RECURSIVE ExploreFrom(_, _, _)
\* the for loop of line 105 from i on
ExploreFrom(st, cur, i) ==
    IF i < 8 THEN ExploreFrom(ExploreNeighbour(st, cur, i), cur, i + 1)
    ELSE st

\* Pop that leaves the node in the queue (top() without pop())
Pop_keep(q, n) == q

\* openList.pop() after top() returned n (line 95)
Pop(q, n) == q \ {n}

\* Close with the flag flipped instead of set
Close_flip(cl, x, y) == [cl EXCEPT ![x][y] = ~@]

\* closed[x][y] = true (line 102)
Close(cl, x, y) == [cl EXCEPT ![x][y] = TRUE]

\* lines 93-122: one iteration of the while loop: the top node is extracted;
\* it is the goal and the loop ends, or its cell is closed and its eight
\* neighbours are explored
LoopBody ==
    /\ spc = "loop"
    /\ openList # {}
    /\ \E n \in Top :
         /\ current' = n
         /\ IF IsGoal(n)
              THEN /\ goalNode' = n
                   /\ openList' = Pop(openList, n)
                   /\ spc' = "reconstruct"
                   /\ UNCHANGED <<closed, nodes, allNodes>>
              ELSE LET st == ExploreFrom([nodes |-> nodes,
                                          openList |-> Pop(openList, n),
                                          allNodes |-> allNodes], n, 0)
                   IN  /\ closed' = Close(closed, Deref(nodes, n).x,
                                           Deref(nodes, n).y)
                       /\ nodes' = st.nodes
                       /\ openList' = st.openList
                       /\ allNodes' = st.allNodes
                       /\ UNCHANGED <<goalNode, spc>>
    /\ UNCHANGED <<batchVars, caller, rows, cols, grid, obst, start, goal,
                   path, freed>>

\* line 93: the open list is empty, the loop ends without a goal node
Exhausted ==
    /\ spc = "loop"
    /\ openList = {}
    /\ spc' = "reconstruct"
    /\ UNCHANGED <<batchVars, caller, rows, cols, grid, obst, start, goal,
                   closed, allNodes, nodes, openList, current, goalNode,
                   path, freed>>

\* lines 130-132
Reconstruct ==
    /\ spc = "reconstruct"
    /\ path' = IF goalNode # Null THEN reconstructPath(nodes, goalNode) ELSE <<>>
    /\ spc' = "cleanup"
    /\ UNCHANGED <<batchVars, caller, rows, cols, grid, obst, start, goal,
                   closed, allNodes, nodes, openList, current, goalNode,
                   freed>>

\* lines 138-140: delete is applied to every pointer held in allNodes
\* (delete of a null pointer does nothing)
CleanUp ==
    /\ spc = "cleanup"
    /\ freed' = [x \in 0..(rows - 1) |-> [y \in 0..(cols - 1) |->
                   [k \in 1..Len(nodes[x][y]) |->
                      Cardinality({c \in (0..(rows - 1)) \X (0..(cols - 1)) :
                                      allNodes[c[1]][c[2]] = <<x, y, k>>})]]]
    /\ spc' = "return"
    /\ UNCHANGED <<batchVars, caller, rows, cols, grid, obst, start, goal,
                   closed, allNodes, nodes, openList, current, goalNode,
                   path>>

\* line 142 and, in solveMaze, lines 159-162: pathLen = path.size()
Return ==
    /\ spc = "return"
    /\ spc' = "done"
    /\ IF caller = "solveMaze"
         THEN /\ pathLen' = [pathLen EXCEPT ![iter[SearchThread]] = Len(path)]
              /\ tpc' = [tpc EXCEPT ![SearchThread] = "attempts_rd"]
         ELSE UNCHANGED <<pathLen, tpc>>
    /\ UNCHANGED <<searchVarsButPc, mainPc, teamSize, schedule, owner, iter,
                   reg, dispatched, finished, mazeAttempts, totalPathLength,
                   successfulMazes, printed>>

aStarSearch ==
    \/ Enter
    \/ LoopBody
    \/ Exhausted
    \/ Reconstruct
    \/ CleanUp
    \/ Return

solveMaze ==
    \/ GenObstacle
    \/ CallSearch
    \/ aStarSearch
    \/ UpdateStep(SearchThread)

SearchNext == solveMaze

SearchSpec == SearchInit /\ [][SearchNext]_vars

\* ------------------------------------------------------ the batch as a whole
ThreadStep(t) ==
    \/ \E i \in Mazes : Dispatch(t, i)
    \/ Search(t)
    \/ UpdateStep(t)

MainStep ==
    \/ Fork
    \/ Join
    \/ PrintAttempts
    \/ PrintTotal
    \/ PrintSuccesses

Next ==
    \/ MainStep
    \/ \E t \in Threads : ThreadStep(t)

Spec == Init /\ [][Next]_vars

\* the threads of the team and main are scheduled fairly
FairSpec ==
    /\ Spec
    /\ WF_vars(MainStep)
    /\ \A t \in Threads : WF_vars(ThreadStep(t))

\* ======================================================== the batch claims
RECURSIVE SumPathLen(_)
\* sequential fold of the per-task path lengths over the iterations 1..n
SumPathLen(n) == IF n = 0 THEN 0 ELSE SumPathLen(n - 1) + pathLen[n]

\* every call of solveMaze of the batch has returned
AllReturned ==
    /\ \A i \in Mazes : dispatched[i] = 1 /\ finished[i] = 1
    /\ \A t \in Threads : tpc[t] = "idle"

\* C1: once all numMazes calls of solveMaze have finished, the counters are
\* the sequential reduction of the per-task results: mazeAttempts is the
\* number of mazes, totalPathLength the sum of the pathLen, successfulMazes
\* the number of tasks with pathLen > 0.
C1_CountersAreReduction ==
    AllReturned =>
        /\ mazeAttempts = numMazes
        /\ totalPathLength = SumPathLen(numMazes)
        /\ successfulMazes = Cardinality({i \in Mazes : pathLen[i] > 0})

\* C2: for each global counter, at most one solveMaze invocation at a time
\* is between its read of the counter and its write-back.
C2_MutualExclusion ==
    /\ Cardinality({t \in Threads : tpc[t] = "attempts_wr"}) <= 1
    /\ Cardinality({t \in Threads : tpc[t] = "total_wr"}) <= 1
    /\ Cardinality({t \in Threads : tpc[t] = "succ_wr"}) <= 1

\* C3: in every reachable state of the batch, the state in which main prints
\* included, successfulMazes <= mazeAttempts.
C3_SuccessesLeqAttempts == successfulMazes <= mazeAttempts

\* main is at one of the reads of lines 205-207
Reporting ==
    mainPc \in {"report_attempts", "report_total", "report_successes"}

\* C4: main reads the counters for the report only in states where every
\* solveMaze invocation of the batch has returned: no thread is inside
\* solveMaze, so none can still write a counter.
C4_JoinBarrier == Reporting => AllReturned

\* C4 witness: main has read mazeAttempts and is reading totalPathLength
\* after a parallel run of a team of several threads.
C4_Witness ==
    /\ mainPc = "report_total"
    /\ printed.attempts >= 0
    /\ teamSize > 1
    /\ AllReturned

\* C5: every maze index is executed by exactly one worker exactly once, and
\* under fair scheduling every task eventually finishes and main eventually
\* reaches (and completes) the final report.
C5_ExactlyOnceAndTermination ==
    /\ [](\A i \in Mazes :
            /\ dispatched[i] <= 1
            /\ finished[i] <= dispatched[i]
            /\ Cardinality({t \in Threads : iter[t] = i}) <= 1)
    /\ [](mainPc = "exit" => \A i \in Mazes : finished[i] = 1)
    /\ <>(\A i \in Mazes : finished[i] = 1)
    /\ <>(mainPc = "exit")

\* C5 witness: the report is out and each of the mazes was run once, by a
\* team with fewer threads than mazes.
C5_Witness ==
    /\ mainPc = "exit"
    /\ teamSize = 2
    /\ \A i \in Mazes : dispatched[i] = 1 /\ finished[i] = 1

\* ======================================================= the search claims
\* aStarSearch has produced the path it returns
PathReady == spc \in {"cleanup", "return", "done"}

Cells == (0..(rows - 1)) \X (0..(cols - 1))

Free(c) == grid[c[1]][c[2]] = 0

Abs(n) == IF n < 0 THEN -n ELSE n

Max(a, b) == IF a > b THEN a ELSE b

\* c and d are 8-connected neighbours: one step apart in a row, a column or
\* a diagonal
Adjacent(c, d) ==
    c # d /\ Abs(c[1] - d[1]) <= 1 /\ Abs(c[2] - d[2]) <= 1

RECURSIVE Closure(_, _)
\* the cells reached from the set S by 8-connected moves onto free cells,
\* where F is the part of S whose neighbours have not been added yet
Closure(S, F) ==
    IF F = {} THEN S
    ELSE LET N == {d \in Cells \ S :
                      Free(d) /\ \E c \in F : Adjacent(c, d)}
         IN  Closure(S \cup N, N)

\* the goal can be reached from the start through in-bounds free cells
Reachable == goal \in Closure({start}, {start})

\* C6: a non-empty returned path starts at start, ends at goal, consecutive
\* coordinates differ by exactly one of the 8 offsets, and every coordinate
\* after the first is an in-bounds free cell.
C6_PathWellFormed ==
    (PathReady /\ path # <<>>) =>
        /\ path[1] = start
        /\ path[Len(path)] = goal
        /\ \A k \in 1..(Len(path) - 1) :
              Cardinality({i \in 1..8 :
                  /\ path[k + 1][1] = path[k][1] + dx[i]
                  /\ path[k + 1][2] = path[k][2] + dy[i]}) = 1
        /\ \A k \in 2..Len(path) : path[k] \in Cells /\ Free(path[k])

\* C6 witness: a path of at least four cells was returned on a grid with
\* obstacles.
C6_Witness ==
    /\ spc = "done"
    /\ Len(path) >= 4
    /\ \E c \in Cells : ~Free(c)

\* C7: with start and goal on free cells the returned path is empty exactly
\* when the goal is not reachable; then solveMaze reports path length 0 and
\* does not count the maze as successful.
C7_EmptyIffUnreachable ==
    (PathReady /\ Free(start) /\ Free(goal)) =>
        LET unreachable == ~Reachable
        IN  /\ (path = <<>>) <=> unreachable
            /\ (caller = "solveMaze" /\ spc = "done" /\ unreachable) =>
                  /\ pathLen[1] = 0
                  /\ successfulMazes = 0
                  /\ tpc[SearchThread] \notin {"succ_rd", "succ_wr"}

\* C7 witness: solveMaze has returned on a grid whose free start and goal
\* are not connected.
C7_Witness ==
    /\ caller = "solveMaze"
    /\ spc = "done"
    /\ Free(start) /\ Free(goal)
    /\ ~Reachable
    /\ finished[1] = 1
    /\ mazeAttempts = 1

\* C8: on a grid without blocked cell the returned path has
\* max(|goal.row - start.row|, |goal.col - start.col|) + 1 coordinates.
C8_FreeGridLength ==
    (PathReady /\ \A c \in Cells : Free(c)) =>
        Len(path) = Max(Abs(goal[1] - start[1]), Abs(goal[2] - start[2])) + 1

\* C8 witness: a search on a free grid with both a diagonal and a straight
\* stretch between start and goal has returned.
C8_Witness ==
    /\ spc = "done"
    /\ \A c \in Cells : Free(c)
    /\ Abs(goal[1] - start[1]) = 2
    /\ Abs(goal[2] - start[2]) = 4
    /\ Len(path) = 5

\* C9: when start equals goal the search returns the one-cell path <<start>>
\* at the first extraction: no cell is marked closed and no neighbour node
\* is created.
C9_StartIsGoal ==
    (start = goal /\ spc \in {"loop", "reconstruct", "cleanup", "return",
                              "done"}) =>
        /\ \A c \in Cells : ~closed[c[1]][c[2]]
        /\ \A c \in Cells : Len(nodes[c[1]][c[2]]) = (IF c = start THEN 1 ELSE 0)
        /\ PathReady => path = <<start>>

\* C9 witness: a search whose start is its goal, not in a corner of the
\* grid, has returned.
C9_Witness ==
    /\ spc = "done"
    /\ start = goal
    /\ start[2] > 0
    /\ path = <<start>>

\* C10: a task whose start or goal is on a blocked cell is rejected before
\* the search begins: no start node is created and the main loop is not
\* entered.
C10_InvalidInputRejected ==
    (/\ spc \in {"call", "loop", "reconstruct", "cleanup", "return", "done"}
     /\ ~Free(start) \/ ~Free(goal)) =>
        /\ spc = "call"
        /\ nodes = <<>>

\* the Node* values handed out by new during the search
NodePtrs ==
    UNION {{<<c[1], c[2], k>> : k \in 1..Len(nodes[c[1]][c[2]])} : c \in Cells}

\* aStarSearch is at or past its return statement
Returning == spc \in {"return", "done"}

\* C11: when aStarSearch returns, with a path or without, every Node it
\* allocated has been released exactly once (none leaked, none freed twice),
\* and no node is released before the path has been read off the nodes.
C11_NodesReleasedOnce ==
    /\ Returning => \A p \in NodePtrs : freed[p[1]][p[2]][p[3]] = 1
    /\ spc \in {"loop", "reconstruct", "cleanup"} => freed = <<>>

\* C12: during one aStarSearch call each cell is expanded at most once: a
\* node that is extracted and expanded (its neighbours explored) never
\* belongs to a cell that an earlier extraction has expanded and closed.
C12_ExpandedAtMostOnce ==
    [][(spc = "loop" /\ openList # {} /\ spc' = "loop") =>
          ~closed[Deref(nodes, current').x][Deref(nodes, current').y]]_vars

\* the Node* of cell c held by the open list
OpenOf(c) == {p \in openList : p[1] = c[1] /\ p[2] = c[2]}

\* C13: once a cell's closed flag is set it is never reset, and from then on
\* no node is created for the cell, its allNodes entry does not change and
\* no node of it is pushed onto the open list, even when a lower f to it is
\* found.
C13_ClosedIsFinal ==
    [][closed # <<>> =>
          \A c \in Cells : closed[c[1]][c[2]] =>
              /\ closed'[c[1]][c[2]]
              /\ Len(nodes'[c[1]][c[2]]) = Len(nodes[c[1]][c[2]])
              /\ allNodes'[c[1]][c[2]] = allNodes[c[1]][c[2]]
              /\ OpenOf(c)' \subseteq OpenOf(c)]_vars

\* C13 witness: the node just expanded is a replaced (stale) node of a cell
\* closed before, next to a closed free cell that is not its parent's: the
\* closed cells kept their flags and their recorded nodes.
C13_Witness ==
    /\ spc = "loop"
    /\ current # Null
    /\ current # allNodes[current[1]][current[2]]
    /\ \E c \in Cells :
         /\ Adjacent(c, <<current[1], current[2]>>)
         /\ Free(c)
         /\ closed[c[1]][c[2]]
         /\ Len(nodes[c[1]][c[2]]) = 1
         /\ Deref(nodes, current).parent # allNodes[c[1]][c[2]]

\* C14: every node created during a search has f = g + h; the start node is
\* created with g = 0, h = heuristic(start, goal), f = h and no predecessor.
C14_FIsGPlusH ==
    nodes # <<>> =>
        /\ \A p \in NodePtrs :
              Deref(nodes, p).f = DAdd(Deref(nodes, p).g, Deref(nodes, p).h)
        /\ LET s == Deref(nodes, <<start[1], start[2], 1>>)
           IN  /\ s.g = DZero
               /\ s.h = heuristic(start[1], start[2], goal[1], goal[2])
               /\ s.f = s.h
               /\ s.parent = Null

\* C15: aStarSearch terminates on every grid and every start/goal pair: the
\* loop ends with the open list empty or the goal extracted, because a node
\* is pushed for a cell only the first time the cell is seen or with an f
\* strictly lower than that of the cell's recorded node.  Stated on finite
\* runs: every iteration extracts a node for good (only nodes made in this
\* iteration are pushed), a node is made only under the rule above, so the
\* f of the nodes of a cell strictly decrease, the loop is never stuck, and
\* it is left only on an empty open list or an extracted goal.
C15_Terminates ==
    /\ [][spc = "loop" =>
            \A c \in Cells :
                LET old == nodes[c[1]][c[2]]
                    new == nodes'[c[1]][c[2]]
                IN  \/ new = old
                    \/ /\ new = Append(old, new[Len(new)])
                       /\ <<c[1], c[2], Len(new)>> \in openList'
                       /\ \/ old = <<>>
                          \/ DLess(new[Len(new)].f,
                                   Deref(nodes, allNodes[c[1]][c[2]]).f)]_vars
    /\ [][(spc = "loop" /\ openList # {}) =>
            /\ current' \in openList
            /\ current' \notin openList'
            /\ (openList' \ openList) \cap NodePtrs = {}
            /\ \/ spc' = "loop"
               \/ spc' = "reconstruct" /\ goalNode' = current']_vars
    /\ [](spc = "loop" => (openList = {} \/ Top # {}))
    /\ [](spc = "loop" =>
            \A p \in NodePtrs :
                p[3] > 1 => DLess(Deref(nodes, p).f,
                                  Deref(nodes, <<p[1], p[2], p[3] - 1>>).f))
    /\ [](spc = "reconstruct" => (openList = {} \/ goalNode # Null))

\* C15 witness: a search that replaced the recorded node of a cell has ended
\* with an empty open list and returned.
C15_Witness ==
    /\ spc = "done"
    /\ goalNode = Null
    /\ openList = {}
    /\ \E c \in Cells : Len(nodes[c[1]][c[2]]) > 1

\* aStarSearch is executing: called and not yet returned to its caller
InSearch == spc \in {"call", "loop", "reconstruct", "cleanup", "return"}

\* C16: aStarSearch leaves the grid it is given unchanged (no step of it
\* changes the free/blocked value of a cell, so the grid at return is the
\* grid at call) and writes none of the global counters mazeAttempts,
\* totalPathLength, successfulMazes.
C16_SearchFrame ==
    [][InSearch =>
          /\ grid' = grid
          /\ mazeAttempts' = mazeAttempts
          /\ totalPathLength' = totalPathLength
          /\ successfulMazes' = successfulMazes]_vars

\* C16 witness: aStarSearch has returned a path of several cells to
\* solveMaze on a grid with a blocked cell, and solveMaze has not yet
\* touched the counters.
C16_Witness ==
    /\ spc = "done"
    /\ caller = "solveMaze"
    /\ \E c \in Cells : ~Free(c)
    /\ Len(path) > 2
    /\ tpc[SearchThread] = "attempts_rd"
    /\ mazeAttempts = 0

\* the threads that are running a task
Running == {t \in Threads : tpc[t] # "idle"}

\* C17: whenever a task has not yet started and fewer than poolSize tasks
\* are running, the task is able to start: some thread can take it, or an
\* unstarted task before it (the loop hands its iterations out in order); it
\* never has to wait for one running task to finish while a worker is idle.
\* Stated for pools smaller than the number of tasks.
C17_IdleWorkerTakesTask ==
    (mainPc = "parallel" /\ teamSize < numMazes) =>
        \A i \in Mazes :
            (dispatched[i] = 0 /\ Cardinality(Running) < teamSize) =>
                \E t \in Threads, j \in 1..i : CanDispatch(t, j)

\* A path cost is the pair <<a, b>> of its numbers of orthogonal and of
\* diagonal moves: the cost a + b * sqrt(2), kept exact.  NoPath is the
\* cost of a cell no path reaches.
NoPath == <<-1, -1>>

\* p < q for costs: with da, db the differences, 0 < da + db * sqrt(2)
CostLess(p, q) ==
    IF p = NoPath THEN FALSE
    ELSE IF q = NoPath THEN TRUE
    ELSE LET da == q[1] - p[1]
             db == q[2] - p[2]
         IN  \/ da >= 0 /\ db >= 0 /\ <<da, db>> # <<0, 0>>
             \/ da > 0 /\ db < 0 /\ da * da > 2 * db * db
             \/ da < 0 /\ db > 0 /\ 2 * db * db > da * da

\* the cost p plus one move from cell c to the adjacent cell d
CostPlus(p, c, d) ==
    IF c[1] = d[1] \/ c[2] = d[2] THEN <<p[1] + 1, p[2]>>
    ELSE <<p[1], p[2] + 1>>

\* a least cost of the non-empty finite set S
CostMin(S) == CHOOSE p \in S : \A q \in S : ~CostLess(q, p)

RECURSIVE Cheapest(_)
\* the costs of the cheapest paths from start onto free cells: the fixed
\* point of relaxing every cell over its neighbours (Bellman-Ford) from d
Cheapest(d) ==
    LET relaxed ==
          [c \in Cells |->
              IF ~Free(c) THEN d[c]
              ELSE CostMin({d[c]} \cup
                     {CostPlus(d[e], e, c) :
                        e \in {e \in Cells : Adjacent(e, c) /\ d[e] # NoPath}})]
    IN  IF relaxed = d THEN d ELSE Cheapest(relaxed)

\* the cost of the cheapest path from start to goal through free cells
CheapestToGoal ==
    Cheapest([c \in Cells |-> IF c = start THEN <<0, 0>> ELSE NoPath])[goal]

\* the cost of a path given as its sequence of cells
PathCost(p) ==
    LET orth == {k \in 1..(Len(p) - 1) :
                    p[k][1] = p[k + 1][1] \/ p[k][2] = p[k + 1][2]}
    IN  <<Cardinality(orth), Len(p) - 1 - Cardinality(orth)>>

\* C18 says that on some obstacle configuration aStarSearch returns a path
\* that costs strictly more than the cheapest free path from start to goal:
\* that the formula below is NOT an invariant of the search.  Such a claim,
\* the existence of a behaviour, is not a property of all behaviours; the
\* invariant it denies is one: every returned path has the cost of a
\* cheapest path.
C18_ReturnedPathIsCheapest ==
    (PathReady /\ path # <<>>) => PathCost(path) = CheapestToGoal

\* C19: a returned path never contains the same coordinate twice: the parent
\* links from the extracted goal node visit each cell at most once, also
\* when recorded nodes were replaced and stale nodes stayed in the open list.
C19_PathIsSimple ==
    PathReady =>
        \A i \in 1..Len(path), j \in 1..Len(path) :
            i # j => path[i] # path[j]

\* C19 witness: a path of at least three cells was returned by a search in
\* which a cell of the path had its recorded node replaced, with the
\* replaced node still in the open list.
C19_Witness ==
    /\ spc = "done"
    /\ Len(path) >= 3
    /\ \E k \in 1..Len(path) :
         /\ Len(nodes[path[k][1]][path[k][2]]) > 1
         /\ <<path[k][1], path[k][2], 1>> \in openList

\* the search is between the creation of the start node and its return
Searching == spc \in {"loop", "reconstruct", "cleanup"}

\* C20: at every point of a search the node recorded in allNodes for a cell
\* has the lowest f of all nodes created for that cell so far (so the
\* recorded f of a cell never increases), and every node in the open list or
\* recorded in allNodes has a parent chain that ends at the start node.
C20_RecordedIsBest ==
    Searching =>
        /\ \A c \in Cells :
              IF nodes[c[1]][c[2]] = <<>> THEN allNodes[c[1]][c[2]] = Null
              ELSE /\ allNodes[c[1]][c[2]] \in NodePtrs
                   /\ allNodes[c[1]][c[2]][1] = c[1]
                   /\ allNodes[c[1]][c[2]][2] = c[2]
                   /\ \A k \in 1..Len(nodes[c[1]][c[2]]) :
                         ~DLess(nodes[c[1]][c[2]][k].f,
                                Deref(nodes, allNodes[c[1]][c[2]]).f)
        /\ \A p \in (openList \cup
                     {allNodes[c[1]][c[2]] : c \in Cells}) \ {Null} :
              LET chain == ParentChain(nodes, p)
              IN  /\ chain[Len(chain)] = start
                  /\ p \in NodePtrs
        /\ \A p \in NodePtrs :
              Deref(nodes, p).parent = Null <=> p = <<start[1], start[2], 1>>

\* C20 witness: during a search a cell has a replaced node still in the open
\* list and a recorded node of lower f, and a node three links from the
\* start is in the open list.
C20_Witness ==
    /\ spc = "loop"
    /\ \E c \in Cells :
         /\ Len(nodes[c[1]][c[2]]) > 1
         /\ allNodes[c[1]][c[2]] = <<c[1], c[2], Len(nodes[c[1]][c[2]])>>
         /\ <<c[1], c[2], 1>> \in openList
         /\ DLess(Deref(nodes, allNodes[c[1]][c[2]]).f, nodes[c[1]][c[2]][1].f)
    /\ \E p \in openList : Len(ParentChain(nodes, p)) >= 4

====
